---- MODULE Spec2Model ----
(***************************************************************************)
(* Clipboard image detection and retrieval (cli/src/media):                *)
(*   clipboard-linux.ts    hasClipboardImageLinux, saveClipboardImageLinux *)
(*   clipboard-windows.ts  hasClipboardImageWindows,                       *)
(*                         saveClipboardImageWindows                       *)
(* Every `await` of the source is one step of the calling process; the     *)
(* synchronous code that follows an await belongs to the same step.        *)
(* External commands and file-system calls are recorded, per call, in log. *)
(***************************************************************************)
EXTENDS Integers, Sequences, FiniteSets, TLC

\* ---------------------------------------------------------------- bounds
NumProcs == 2        \* call slots (one call per slot)
MaxLen == 1          \* longest byte sequence a clipboard tool returns
MaxByte == 2         \* byte values are 1..MaxByte

Procs == 1..NumProcs
Bytes == 1..MaxByte

RECURSIVE SeqsUpTo(_)
SeqsUpTo(n) ==
  IF n = 0 THEN {<<>>}
  ELSE LET S == SeqsUpTo(n - 1)
       IN  S \cup {Append(s, b) : s \in {t \in S : Len(t) = n - 1}, b \in Bytes}

Payloads == SeqsUpTo(MaxLen)

\* Option values: None is JS null, Some(b) is a Buffer holding bytes b.
None == <<>>
Some(b) == <<b>>

\* ------------------------------------------------------------- constants
NoImageMsg == "No image found in clipboard."
NoToolMsg == "No clipboard tool available. Please install xclip (sudo apt install xclip) or wl-clipboard for Wayland."
EmptyMsg == "Clipboard image is empty."
WriteFailedMsg == "Failed to write image data to file."
NotCreatedMsg == "Image file was not created."

Tools == {"wl-paste", "xclip", "xsel"}
ListTools == {"wl-paste", "xclip"}
ImageMimes == {"image/png", "image/jpeg", "image/gif"}
Formats == {"png", "jpeg", "gif"}

\* What a type enumeration (wl-paste --list-types, xclip -t TARGETS -o)
\* yields: the command fails, or stdout lists a set of image types.
ListOutcomes ==
  {[ok |-> FALSE, types |-> {}]} \cup {[ok |-> TRUE, types |-> T] : T \in SUBSET ImageMimes}

VARIABLES
  platform,    \* "linux" or "win32": which driver the caller dispatches to
  wayland,     \* process.env["WAYLAND_DISPLAY"] is set
  installed,   \* tools that `which` finds
  listing,     \* per enumerating tool, what its type enumeration yields
  winImage,    \* Windows: the clipboard holds an image
  files,       \* the output directory: path -> bytes, for existing files
  pc,          \* per call: position in the entry point
  op,          \* per call: the entry point
  imageData,   \* per call: local imageData (Buffer | null)
  format,      \* per call: local format
  mimeType,    \* per call: local mimeType of the backend block
  filePath,    \* per call: local filePath
  err,         \* per call: the error caught by the outer catch
  result,      \* per call: what the call completed with
  log          \* per call: external invocations made, in order

envVars == <<platform, wayland, installed, listing, winImage>>
locals == <<imageData, format, mimeType, filePath, err>>
vars == <<platform, wayland, installed, listing, winImage, files,
          pc, op, imageData, format, mimeType, filePath, err, result, log>>

\* ------------------------------------------------------------ results
NoPath == [call |-> 0, ext |-> "none"]
NoResult == [kind |-> "none", filePath |-> NoPath, error |-> "", value |-> FALSE]
Success(path) == [kind |-> "success", filePath |-> path, error |-> "", value |-> TRUE]
Failure(msg) == [kind |-> "failure", filePath |-> NoPath, error |-> msg, value |-> FALSE]
Rejected(msg) == [kind |-> "rejected", filePath |-> NoPath, error |-> msg, value |-> FALSE]
Bool(b) == [kind |-> "bool", filePath |-> NoPath, error |-> "", value |-> b]

\* ------------------------------------------------------------ log events
\* cmd, tool: the invocation; ok: it completed without error; types: the
\* types an enumeration listed; mime: the type a fetch asked for; bytes: the
\* bytes fetched or left on disk; out: a script's stdout; size: stat's size.
Ev(cmd, tool, ok) ==
  [cmd |-> cmd, tool |-> tool, ok |-> ok, types |-> {}, mime |-> "", bytes |-> <<>>, out |-> "", size |-> 0]
EvList(tool, o) == [Ev("list", tool, o.ok) EXCEPT !.types = o.types]
EvFetch(tool, mime, o) == [Ev("fetch", tool, o.ok) EXCEPT !.mime = mime, !.bytes = o.bytes]
EvWrite(ok, bytes) == [Ev("writeFile", "fs", ok) EXCEPT !.bytes = bytes]
EvStat(ok, n) == [Ev("stat", "fs", ok) EXCEPT !.size = n]
EvScript(tool, o, left) == [Ev("powershell", tool, o.ok) EXCEPT !.out = o.out, !.bytes = left]

Logged(p, e) == log' = [log EXCEPT ![p] = Append(@, e)]

\* ------------------------------------------------------------ file system
Exists(f, path) == path \in DOMAIN f
WriteTo(f, path, bytes) == [q \in DOMAIN f \cup {path} |-> IF q = path THEN bytes ELSE f[q]]
Remove(f, path) == [q \in DOMAIN f \ {path} |-> f[q]]

Prefixes(b) == {SubSeq(b, 1, n) : n \in 0..Len(b)}

\* fs.promises.writeFile: resolves (the bytes are on disk, or the file is
\* found empty by the following stat: the case the size check exists for),
\* or rejects leaving no file or a partial file.
WriteOutcomes(bytes) ==
  {[ok |-> TRUE, left |-> Some(bytes)], [ok |-> TRUE, left |-> Some(<<>>)], [ok |-> FALSE, left |-> None]}
  \cup {[ok |-> FALSE, left |-> Some(pre)] : pre \in Prefixes(bytes) \ {bytes}}

\* generateClipboardFilename(format): a name unique to the call.
generateClipboardFilename(p, fmt) == [call |-> p, ext |-> fmt]

\* ------------------------------------------------------------ helpers
\* hasXclip / hasXsel / hasWlPaste: `which <tool>` succeeds.
hasTool(t) == t \in installed

\* isWayland()
isWayland == wayland

\* Variant: an empty Buffer counts as falsy too (`!imageData?.length`).
IsFalsyOrEmpty(d) == d = None \/ Len(d[1]) = 0

\* JS `!imageData`: only null is falsy; an empty Buffer is an object.
IsFalsy(d) == d = None

\* Variant: the final else is missing, the default image/png is fetched.
NegotiateDefaultPng(types) ==
  IF "image/jpeg" \in types /\ "image/png" \notin types
    THEN [found |-> TRUE, mimeType |-> "image/jpeg", format |-> "jpeg"]
  ELSE IF "image/gif" \in types /\ "image/png" \notin types
    THEN [found |-> TRUE, mimeType |-> "image/gif", format |-> "gif"]
  ELSE [found |-> TRUE, mimeType |-> "image/png", format |-> "png"]

\* Variant: the jpeg test comes first in the chain.
NegotiateJpegFirst(types) ==
  IF "image/jpeg" \in types THEN [found |-> TRUE, mimeType |-> "image/jpeg", format |-> "jpeg"]
  ELSE IF "image/png" \in types THEN [found |-> TRUE, mimeType |-> "image/png", format |-> "png"]
  ELSE IF "image/gif" \in types THEN [found |-> TRUE, mimeType |-> "image/gif", format |-> "gif"]
  ELSE [found |-> FALSE, mimeType |-> "image/png", format |-> "png"]

\* The if / else-if chain over types.includes(...).
Negotiate(types) ==
  IF "image/png" \in types THEN [found |-> TRUE, mimeType |-> "image/png", format |-> "png"]
  ELSE IF "image/jpeg" \in types THEN [found |-> TRUE, mimeType |-> "image/jpeg", format |-> "jpeg"]
  ELSE IF "image/gif" \in types THEN [found |-> TRUE, mimeType |-> "image/gif", format |-> "gif"]
  ELSE [found |-> FALSE, mimeType |-> "image/png", format |-> "png"]

\* stdout.includes("image/png") || ... || stdout.includes("image/gif")
IncludesImage(types) == types \cap ImageMimes # {}

Goto(p, l) == pc' = [pc EXCEPT ![p] = l]
Return(p, r) == /\ result' = [result EXCEPT ![p] = r]
                /\ pc' = [pc EXCEPT ![p] = "done"]

\* ------------------------------------------------------------ Init
LinuxEnv ==
  /\ platform = "linux"
  /\ wayland \in BOOLEAN
  /\ installed \in SUBSET Tools
  /\ listing \in [ListTools -> ListOutcomes]
  /\ winImage = FALSE

WindowsEnv ==
  /\ platform = "win32"
  /\ wayland = FALSE
  /\ installed = {}
  /\ listing = [t \in ListTools |-> [ok |-> FALSE, types |-> {}]]
  /\ winImage \in BOOLEAN

Init ==
  /\ LinuxEnv \/ WindowsEnv
  /\ files = <<>>
  /\ pc = [p \in Procs |-> "idle"]
  /\ op = [p \in Procs |-> "none"]
  /\ imageData = [p \in Procs |-> None]
  /\ format = [p \in Procs |-> "png"]
  /\ mimeType = [p \in Procs |-> "image/png"]
  /\ filePath = [p \in Procs |-> NoPath]
  /\ err = [p \in Procs |-> ""]
  /\ result = [p \in Procs |-> NoResult]
  /\ log = [p \in Procs |-> <<>>]

\* ------------------------------------------------------------ calls
LinuxOps == {"saveClipboardImageLinux", "hasClipboardImageLinux"}
WindowsOps == {"saveClipboardImageWindows", "hasClipboardImageWindows"}

\* The caller invokes an entry point of its platform's driver.
Call(p, o) ==
  /\ pc[p] = "idle"
  /\ o \in (IF platform = "linux" THEN LinuxOps ELSE WindowsOps)
  /\ op' = [op EXCEPT ![p] = o]
  /\ pc' = [pc EXCEPT ![p] = "start"]
  /\ UNCHANGED <<envVars, files, locals, result, log>>

At(p, o, l) == op[p] = o /\ pc[p] = l

\* ============================================== saveClipboardImageLinux
SL == "saveClipboardImageLinux"

\* Variant: the length check of line 207 is missing.
SL_Line207NoCheck(p, data, fmt) ==
  /\ filePath' = [filePath EXCEPT ![p] = generateClipboardFilename(p, fmt)]
  /\ Goto(p, "write")
  /\ UNCHANGED result

\* Lines 206-216: the length check and the file name, once imageData is set.
SL_Line207(p, data, fmt) ==
  IF Len(data[1]) = 0
    THEN /\ Return(p, Failure(EmptyMsg))
         /\ UNCHANGED filePath
    ELSE /\ filePath' = [filePath EXCEPT ![p] = generateClipboardFilename(p, fmt)]
         /\ Goto(p, "write")
         /\ UNCHANGED result

\* Line 191: if (!imageData) the tool check, else on to line 207.
SL_Line191(p, data, fmt) ==
  IF IsFalsy(data)
    THEN Goto(p, "anyWl") /\ UNCHANGED <<result, filePath>>
    ELSE SL_Line207(p, data, fmt)

\* Variant: the xclip block is skipped after the wl-paste block.
SL_Line155Skip(p, data, fmt) == SL_Line191(p, data, fmt)

\* Variant: `if (await hasXclip())`, without the !imageData test.
SL_Line155Always(p, data, fmt) == Goto(p, "xclipProbe") /\ UNCHANGED <<result, filePath>>

\* Line 155: if (!imageData && (await hasXclip())).
SL_Line155(p, data, fmt) ==
  IF IsFalsy(data)
    THEN Goto(p, "xclipProbe") /\ UNCHANGED <<result, filePath>>
    ELSE SL_Line191(p, data, fmt)

\* Line 112: const clipboardDir = await ensureClipboardDir(), outside any try.
SL_EnsureDir(p) ==
  /\ At(p, SL, "start")
  /\ \E ok \in BOOLEAN :
       /\ Logged(p, Ev("ensureClipboardDir", "fs", ok))
       /\ IF ok
            THEN /\ Goto(p, IF isWayland THEN "wlProbe" ELSE "xclipProbe")
                 /\ UNCHANGED result
            ELSE Return(p, Rejected("ensureClipboardDir failed"))
  /\ UNCHANGED <<envVars, files, op, locals>>

\* Line 119: isWayland() && (await hasWlPaste())
SL_WlProbe(p) ==
  /\ At(p, SL, "wlProbe")
  /\ Logged(p, Ev("which", "wl-paste", hasTool("wl-paste")))
  /\ Goto(p, IF hasTool("wl-paste") THEN "wlList" ELSE "xclipProbe")
  /\ UNCHANGED <<envVars, files, op, locals, result>>

\* Lines 120-139 and the catch of 147: wl-paste --list-types.
SL_WlList(p) ==
  /\ At(p, SL, "wlList")
  /\ LET o == listing["wl-paste"]
         n == Negotiate(o.types)
     IN  /\ Logged(p, EvList("wl-paste", o))
         /\ IF ~o.ok
              THEN /\ SL_Line155(p, imageData[p], format[p])
                   /\ UNCHANGED <<format, mimeType>>
              ELSE IF n.found
                THEN /\ format' = [format EXCEPT ![p] = n.format]
                     /\ mimeType' = [mimeType EXCEPT ![p] = n.mimeType]
                     /\ Goto(p, "wlFetch")
                     /\ UNCHANGED <<result, filePath>>
                ELSE /\ Return(p, Failure(NoImageMsg))
                     /\ UNCHANGED <<format, mimeType, filePath>>
  /\ UNCHANGED <<envVars, files, op, imageData, err>>

FetchOutcomes ==
  {[ok |-> FALSE, bytes |-> <<>>]} \cup {[ok |-> TRUE, bytes |-> b] : b \in Payloads}

\* Lines 141-146 and the catch of 147: wl-paste --type mimeType.
SL_WlFetch(p) ==
  /\ At(p, SL, "wlFetch")
  /\ \E o \in FetchOutcomes :
       LET d == IF o.ok THEN Some(o.bytes) ELSE imageData[p]
       IN  /\ Logged(p, EvFetch("wl-paste", mimeType[p], o))
           /\ imageData' = [imageData EXCEPT ![p] = d]
           /\ SL_Line155(p, d, format[p])
  /\ UNCHANGED <<envVars, files, op, format, mimeType, err>>

\* Line 155: (await hasXclip())
SL_XclipProbe(p) ==
  /\ At(p, SL, "xclipProbe")
  /\ Logged(p, Ev("which", "xclip", hasTool("xclip")))
  /\ IF hasTool("xclip")
       THEN Goto(p, "xclipList") /\ UNCHANGED <<result, filePath>>
       ELSE SL_Line191(p, imageData[p], format[p])
  /\ UNCHANGED <<envVars, files, op, imageData, format, mimeType, err>>

\* Variant: the xclip block sets mimeType but leaves format as it was.
SL_XclipListKeepFormat(p) ==
  /\ At(p, SL, "xclipList")
  /\ LET o == listing["xclip"]
         n == Negotiate(o.types)
     IN  /\ Logged(p, EvList("xclip", o))
         /\ IF ~o.ok
              THEN /\ SL_Line191(p, imageData[p], format[p])
                   /\ UNCHANGED mimeType
              ELSE IF n.found
                THEN /\ mimeType' = [mimeType EXCEPT ![p] = n.mimeType]
                     /\ Goto(p, "xclipFetch")
                     /\ UNCHANGED <<result, filePath>>
                ELSE /\ Return(p, Failure(NoImageMsg))
                     /\ UNCHANGED <<mimeType, filePath>>
  /\ UNCHANGED <<envVars, files, op, imageData, format, err>>

\* Lines 156-175 and the catch of 183: xclip -t TARGETS -o.
SL_XclipList(p) ==
  /\ At(p, SL, "xclipList")
  /\ LET o == listing["xclip"]
         n == Negotiate(o.types)
     IN  /\ Logged(p, EvList("xclip", o))
         /\ IF ~o.ok
              THEN /\ SL_Line191(p, imageData[p], format[p])
                   /\ UNCHANGED <<format, mimeType>>
              ELSE IF n.found
                THEN /\ format' = [format EXCEPT ![p] = n.format]
                     /\ mimeType' = [mimeType EXCEPT ![p] = n.mimeType]
                     /\ Goto(p, "xclipFetch")
                     /\ UNCHANGED <<result, filePath>>
                ELSE /\ Return(p, Failure(NoImageMsg))
                     /\ UNCHANGED <<format, mimeType, filePath>>
  /\ UNCHANGED <<envVars, files, op, imageData, err>>

\* Variant: a failed xclip fetch goes back to the xclip enumeration.
SL_XclipFetchRetry(p) ==
  /\ At(p, SL, "xclipFetch")
  /\ \E o \in FetchOutcomes :
       LET d == IF o.ok THEN Some(o.bytes) ELSE imageData[p]
       IN  /\ Logged(p, EvFetch("xclip", mimeType[p], o))
           /\ imageData' = [imageData EXCEPT ![p] = d]
           /\ IF o.ok
                THEN SL_Line191(p, d, format[p])
                ELSE Goto(p, "xclipList") /\ UNCHANGED <<result, filePath>>
  /\ UNCHANGED <<envVars, files, op, format, mimeType, err>>

\* Lines 177-182 and the catch of 183: xclip -t mimeType -o.
SL_XclipFetch(p) ==
  /\ At(p, SL, "xclipFetch")
  /\ \E o \in FetchOutcomes :
       LET d == IF o.ok THEN Some(o.bytes) ELSE imageData[p]
       IN  /\ Logged(p, EvFetch("xclip", mimeType[p], o))
           /\ imageData' = [imageData EXCEPT ![p] = d]
           /\ SL_Line191(p, d, format[p])
  /\ UNCHANGED <<envVars, files, op, format, mimeType, err>>

\* Line 193, first operand: (await hasWlPaste())
SL_AnyWl(p) ==
  /\ At(p, SL, "anyWl")
  /\ Logged(p, Ev("which", "wl-paste", hasTool("wl-paste")))
  /\ IF hasTool("wl-paste")
       THEN Return(p, Failure(NoImageMsg))
       ELSE Goto(p, "anyXclip") /\ UNCHANGED result
  /\ UNCHANGED <<envVars, files, op, locals>>

\* Line 193, second operand: (await hasXclip())
SL_AnyXclip(p) ==
  /\ At(p, SL, "anyXclip")
  /\ Logged(p, Ev("which", "xclip", hasTool("xclip")))
  /\ IF hasTool("xclip")
       THEN Return(p, Failure(NoImageMsg))
       ELSE Goto(p, "anyXsel") /\ UNCHANGED result
  /\ UNCHANGED <<envVars, files, op, locals>>

\* Variant: as in the detection function, xsel is read when it is installed,
\* a step the save function does not have.
SL_AnyXselThenRead(p) ==
  /\ At(p, SL, "anyXsel")
  /\ Logged(p, Ev("which", "xsel", hasTool("xsel")))
  /\ IF hasTool("xsel")
       THEN Goto(p, "xselRead") /\ UNCHANGED result
       ELSE Return(p, Failure(NoToolMsg))
  /\ UNCHANGED <<envVars, files, op, locals>>

\* Variant: hasAnyTool is not consulted, "No image found" in both cases.
SL_AnyXselNoImage(p) ==
  /\ At(p, SL, "anyXsel")
  /\ Logged(p, Ev("which", "xsel", hasTool("xsel")))
  /\ Return(p, Failure(NoImageMsg))
  /\ UNCHANGED <<envVars, files, op, locals>>

\* Line 193, third operand, and lines 194-203.
SL_AnyXsel(p) ==
  /\ At(p, SL, "anyXsel")
  /\ Logged(p, Ev("which", "xsel", hasTool("xsel")))
  /\ Return(p, Failure(IF hasTool("xsel") THEN NoImageMsg ELSE NoToolMsg))
  /\ UNCHANGED <<envVars, files, op, locals>>

\* Line 219: await fs.promises.writeFile(filePath, imageData)
SL_Write(p) ==
  /\ At(p, SL, "write")
  /\ \E w \in WriteOutcomes(imageData[p][1]) :
       /\ files' = IF w.left = None THEN files ELSE WriteTo(files, filePath[p], w.left[1])
       /\ Logged(p, EvWrite(w.ok, imageData[p][1]))
       /\ IF w.ok
            THEN Goto(p, "stat") /\ UNCHANGED err
            ELSE Goto(p, "cleanup") /\ err' = [err EXCEPT ![p] = "writeFile failed"]
  /\ UNCHANGED <<envVars, op, imageData, format, mimeType, filePath, result>>

\* Lines 222-234: stat, then the size check and the success return.
SL_Stat(p) ==
  /\ At(p, SL, "stat")
  /\ \E ok \in {b \in BOOLEAN : b => Exists(files, filePath[p])} :
       /\ Logged(p, EvStat(ok, IF ok THEN Len(files[filePath[p]]) ELSE 0))
       /\ IF ~ok
            THEN /\ Goto(p, "cleanup")
                 /\ err' = [err EXCEPT ![p] = "stat failed"]
                 /\ UNCHANGED result
            ELSE IF Len(files[filePath[p]]) = 0
              THEN Goto(p, "unlinkZero") /\ UNCHANGED <<err, result>>
              ELSE Return(p, Success(filePath[p])) /\ UNCHANGED err
  /\ UNCHANGED <<envVars, files, op, imageData, format, mimeType, filePath>>

\* Lines 224-228: unlink of the zero-byte file, inside the outer try.
SL_UnlinkZero(p) ==
  /\ At(p, SL, "unlinkZero")
  /\ \E ok \in {b \in BOOLEAN : b => Exists(files, filePath[p])} :
       /\ Logged(p, Ev("unlink", "fs", ok))
       /\ IF ok
            THEN /\ files' = Remove(files, filePath[p])
                 /\ Return(p, Failure(WriteFailedMsg))
                 /\ UNCHANGED err
            ELSE /\ Goto(p, "cleanup")
                 /\ err' = [err EXCEPT ![p] = "unlink failed"]
                 /\ UNCHANGED <<files, result>>
  /\ UNCHANGED <<envVars, op, imageData, format, mimeType, filePath>>

\* Variant: the cleanup empties the output directory.
SL_CleanupDirectory(p) ==
  /\ At(p, SL, "cleanup")
  /\ \E ok \in {b \in BOOLEAN : b => Exists(files, filePath[p])} :
       /\ Logged(p, Ev("unlink", "fs", ok))
       /\ files' = IF ok THEN <<>> ELSE files
       /\ Return(p, Failure(err[p]))
  /\ UNCHANGED <<envVars, op, locals>>

\* Lines 235-246: the outer catch, with its best-effort unlink.
SL_Cleanup(p) ==
  /\ At(p, SL, "cleanup")
  /\ \E ok \in {b \in BOOLEAN : b => Exists(files, filePath[p])} :
       /\ Logged(p, Ev("unlink", "fs", ok))
       /\ files' = IF ok THEN Remove(files, filePath[p]) ELSE files
       /\ Return(p, Failure(err[p]))
  /\ UNCHANGED <<envVars, op, locals>>

SaveLinux(p) ==
  \/ SL_EnsureDir(p)
  \/ SL_WlProbe(p)
  \/ SL_WlList(p)
  \/ SL_WlFetch(p)
  \/ SL_XclipProbe(p)
  \/ SL_XclipList(p)
  \/ SL_XclipFetch(p)
  \/ SL_AnyWl(p)
  \/ SL_AnyXclip(p)
  \/ SL_AnyXsel(p)
  \/ SL_Write(p)
  \/ SL_Stat(p)
  \/ SL_UnlinkZero(p)
  \/ SL_Cleanup(p)

\* =============================================== hasClipboardImageLinux
HL == "hasClipboardImageLinux"

\* Line 65: isWayland() is read when the call starts.
HL_Start(p) ==
  /\ At(p, HL, "start")
  /\ Goto(p, IF isWayland THEN "wlProbe" ELSE "xclipProbe")
  /\ UNCHANGED <<envVars, files, op, locals, result, log>>

\* Line 65: (await hasWlPaste())
HL_WlProbe(p) ==
  /\ At(p, HL, "wlProbe")
  /\ Logged(p, Ev("which", "wl-paste", hasTool("wl-paste")))
  /\ Goto(p, IF hasTool("wl-paste") THEN "wlList" ELSE "xclipProbe")
  /\ UNCHANGED <<envVars, files, op, locals, result>>

\* Variant: a wl-paste listing without an image type falls through to xclip.
HL_WlListFallThrough(p) ==
  /\ At(p, HL, "wlList")
  /\ LET o == listing["wl-paste"]
     IN  /\ Logged(p, EvList("wl-paste", o))
         /\ IF o.ok /\ IncludesImage(o.types)
              THEN Return(p, Bool(TRUE))
              ELSE Goto(p, "xclipProbe") /\ UNCHANGED result
  /\ UNCHANGED <<envVars, files, op, locals>>

\* Lines 66-73: wl-paste --list-types.
HL_WlList(p) ==
  /\ At(p, HL, "wlList")
  /\ LET o == listing["wl-paste"]
     IN  /\ Logged(p, EvList("wl-paste", o))
         /\ IF o.ok
              THEN Return(p, Bool(IncludesImage(o.types)))
              ELSE Goto(p, "xclipProbe") /\ UNCHANGED result
  /\ UNCHANGED <<envVars, files, op, locals>>

\* Line 77: (await hasXclip())
HL_XclipProbe(p) ==
  /\ At(p, HL, "xclipProbe")
  /\ Logged(p, Ev("which", "xclip", hasTool("xclip")))
  /\ Goto(p, IF hasTool("xclip") THEN "xclipList" ELSE "xselProbe")
  /\ UNCHANGED <<envVars, files, op, locals, result>>

\* Lines 78-85: xclip -t TARGETS -o.
HL_XclipList(p) ==
  /\ At(p, HL, "xclipList")
  /\ LET o == listing["xclip"]
     IN  /\ Logged(p, EvList("xclip", o))
         /\ IF o.ok
              THEN Return(p, Bool(IncludesImage(o.types)))
              ELSE Goto(p, "xselProbe") /\ UNCHANGED result
  /\ UNCHANGED <<envVars, files, op, locals>>

\* Line 89: (await hasXsel()), and line 104 when it is missing.
HL_XselProbe(p) ==
  /\ At(p, HL, "xselProbe")
  /\ Logged(p, Ev("which", "xsel", hasTool("xsel")))
  /\ IF hasTool("xsel")
       THEN Goto(p, "xselRead") /\ UNCHANGED result
       ELSE Return(p, Bool(FALSE))
  /\ UNCHANGED <<envVars, files, op, locals>>

\* Variant: a read that succeeds is taken as "there is an image".
HL_XselReadTrusted(p) ==
  /\ At(p, HL, "xselRead")
  /\ \E ok \in BOOLEAN :
       /\ Logged(p, Ev("read", "xsel", ok))
       /\ Return(p, Bool(ok))
  /\ UNCHANGED <<envVars, files, op, locals>>

\* Lines 90-104: xsel --clipboard --output; false whether it reads or fails.
HL_XselRead(p) ==
  /\ At(p, HL, "xselRead")
  /\ \E ok \in BOOLEAN :
       /\ Logged(p, Ev("read", "xsel", ok))
       /\ Return(p, Bool(FALSE))
  /\ UNCHANGED <<envVars, files, op, locals>>

HasLinux(p) ==
  \/ HL_Start(p)
  \/ HL_WlProbe(p)
  \/ HL_WlList(p)
  \/ HL_XclipProbe(p)
  \/ HL_XclipList(p)
  \/ HL_XselProbe(p)
  \/ HL_XselRead(p)

\* ============================================ clipboard-windows.ts
\* String.prototype.toLowerCase on the outputs PowerShell prints.
ToLowerCase(s) ==
  CASE s = "True" -> "true"
    [] s = "False" -> "false"
    [] OTHER -> s

\* runPowerShell for the ContainsImage() script: the process fails, or
\* prints the boolean.
HasScriptOutcomes ==
  {[ok |-> FALSE, out |-> ""], [ok |-> TRUE, out |-> IF winImage THEN "True" ELSE "False"]}

HW == "hasClipboardImageWindows"

\* Lines 28-40.
HW_RunPowerShell(p) ==
  /\ At(p, HW, "start")
  /\ \E o \in HasScriptOutcomes :
       /\ Logged(p, EvScript("ContainsImage", o, <<>>))
       /\ Return(p, Bool(o.ok /\ ToLowerCase(o.out) = "true"))
  /\ UNCHANGED <<envVars, files, op, locals>>

\* What the save script leaves on disk: nothing, or a file.  Image.Save
\* may leave a truncated or empty file when it fails part-way.
PngPayloads == Payloads \ {<<>>}
PartialPayloads == UNION {Prefixes(b) \ {b} : b \in PngPayloads}

\* runPowerShell for the save script (lines 56-75): the process fails
\* (non-zero exit, spawn error), or prints NO_IMAGE, SUCCESS or ERROR: ...
SaveScriptOutcomes ==
  IF ~winImage
    THEN {[ok |-> FALSE, out |-> "", msg |-> "", left |-> None],
          [ok |-> TRUE, out |-> "NO_IMAGE", msg |-> "", left |-> None]}
    ELSE {[ok |-> TRUE, out |-> "SUCCESS", msg |-> "", left |-> l] :
             l \in {None, Some(<<>>)} \cup {Some(b) : b \in PngPayloads}}
         \cup {[ok |-> TRUE, out |-> "ERROR:", msg |-> "A generic error occurred in GDI+.", left |-> l] :
             l \in {None} \cup {Some(b) : b \in PartialPayloads}}
         \cup {[ok |-> FALSE, out |-> "", msg |-> "", left |-> l] :
             l \in {None} \cup {Some(b) : b \in PartialPayloads \cup PngPayloads}}

SW == "saveClipboardImageWindows"

\* Lines 47-49: ensureClipboardDir and the file name, outside the try.
SW_EnsureDir(p) ==
  /\ At(p, SW, "start")
  /\ \E ok \in BOOLEAN :
       /\ Logged(p, Ev("ensureClipboardDir", "fs", ok))
       /\ IF ok
            THEN /\ filePath' = [filePath EXCEPT ![p] = generateClipboardFilename(p, "png")]
                 /\ Goto(p, "runPowerShell")
                 /\ UNCHANGED result
            ELSE /\ Return(p, Rejected("ensureClipboardDir failed"))
                 /\ UNCHANGED filePath
  /\ UNCHANGED <<envVars, files, op, imageData, format, mimeType, err>>

\* Lines 75-89 and the entry of the outer catch.
SW_RunPowerShell(p) ==
  /\ At(p, SW, "runPowerShell")
  /\ \E o \in SaveScriptOutcomes :
       /\ files' = IF o.left = None THEN files ELSE WriteTo(files, filePath[p], o.left[1])
       /\ Logged(p, EvScript("GetImage", o, IF o.left = None THEN <<>> ELSE o.left[1]))
       /\ IF ~o.ok
            THEN /\ Goto(p, "cleanup")
                 /\ err' = [err EXCEPT ![p] = "powershell.exe failed"]
                 /\ UNCHANGED result
            ELSE IF o.out = "NO_IMAGE"
              THEN Return(p, Failure(NoImageMsg)) /\ UNCHANGED err
              ELSE IF o.out = "ERROR:"
                THEN Return(p, Failure(o.msg)) /\ UNCHANGED err
                ELSE Goto(p, "stat") /\ UNCHANGED <<err, result>>
  /\ UNCHANGED <<envVars, op, imageData, format, mimeType, filePath>>

\* Lines 92-111: stat inside the inner try, whose catch reports
\* "Image file was not created."
SW_Stat(p) ==
  /\ At(p, SW, "stat")
  /\ \E ok \in {b \in BOOLEAN : b => Exists(files, filePath[p])} :
       /\ Logged(p, EvStat(ok, IF ok THEN Len(files[filePath[p]]) ELSE 0))
       /\ IF ~ok
            THEN Return(p, Failure(NotCreatedMsg))
            ELSE IF Len(files[filePath[p]]) = 0
              THEN Goto(p, "unlinkZero") /\ UNCHANGED result
              ELSE Return(p, Success(filePath[p]))
  /\ UNCHANGED <<envVars, files, op, locals>>

\* Lines 95-99: unlink of the zero-byte file, inside the inner try: a
\* failing unlink lands in the inner catch (lines 106-110).
SW_UnlinkZero(p) ==
  /\ At(p, SW, "unlinkZero")
  /\ \E ok \in {b \in BOOLEAN : b => Exists(files, filePath[p])} :
       /\ Logged(p, Ev("unlink", "fs", ok))
       /\ files' = IF ok THEN Remove(files, filePath[p]) ELSE files
       /\ Return(p, Failure(IF ok THEN WriteFailedMsg ELSE NotCreatedMsg))
  /\ UNCHANGED <<envVars, op, locals>>

\* Lines 112-128: the outer catch, with its best-effort unlink.
SW_Cleanup(p) ==
  /\ At(p, SW, "cleanup")
  /\ \E ok \in {b \in BOOLEAN : b => Exists(files, filePath[p])} :
       /\ Logged(p, Ev("unlink", "fs", ok))
       /\ files' = IF ok THEN Remove(files, filePath[p]) ELSE files
       /\ Return(p, Failure(err[p]))
  /\ UNCHANGED <<envVars, op, locals>>

SaveWindows(p) ==
  \/ SW_EnsureDir(p)
  \/ SW_RunPowerShell(p)
  \/ SW_Stat(p)
  \/ SW_UnlinkZero(p)
  \/ SW_Cleanup(p)

\* ------------------------------------------------------------ specification
\* One call of one entry point, in every environment.
Next ==
  \/ \E o \in LinuxOps \cup WindowsOps : Call(1, o)
  \/ SaveLinux(1)
  \/ HasLinux(1)
  \/ HW_RunPowerShell(1)
  \/ SaveWindows(1)

Spec == Init /\ [][Next]_vars

\* Every external invocation eventually completes, with success or failure.
SpecLive == Init /\ [][Next]_vars /\ WF_vars(Next)

\* Two save calls in flight at once, each with its own locals and its own
\* file name, in environments with both enumerating backends, with xclip
\* alone or with no tool, where an enumeration fails or lists image/png.
Callers == {p \in Procs : p <= 2}

InitConcurrent ==
  /\ Init
  /\ platform = "linux" =>
       /\ installed \in {{"wl-paste", "xclip"}, {"xclip"}, {}}
       /\ \A t \in ListTools : listing[t] \in {[ok |-> FALSE, types |-> {}], [ok |-> TRUE, types |-> {"image/png"}]}
  /\ platform = "win32" => winImage

NextConcurrent ==
  \E p \in Callers :
    \/ \E o \in {SL, SW} : Call(p, o)
    \/ SaveLinux(p)
    \/ SaveWindows(p)

SpecConcurrent == InitConcurrent /\ [][NextConcurrent]_vars

\* Consecutive detection calls: the caller awaits one call before it makes
\* the next, in the same environment.
DetectOps == {HL, HW}

CallInTurn(p, o) ==
  /\ \A q \in Procs : q < p => pc[q] = "done"
  /\ Call(p, o)

NextDetect ==
  \E p \in Procs :
    \/ \E o \in DetectOps : CallInTurn(p, o)
    \/ HasLinux(p)
    \/ HW_RunPowerShell(p)

SpecDetect == Init /\ [][NextDetect]_vars

\* ============================================================ properties
Idx(p) == 1..Len(log[p])
Last(p) == log[p][Len(log[p])]
NoImageListing(e) == e.cmd = "list" /\ e.ok /\ e.types \cap ImageMimes = {}
BackendFailed(e, t) == e.tool = t /\ e.cmd \in {"list", "fetch"} /\ ~e.ok
OwnFiles(p) == {path \in DOMAIN files : path.call = p}
SuccessfulFetches(p) == {i \in Idx(p) : log[p][i].cmd = "fetch" /\ log[p][i].ok}
Returned(p) == pc[p] = "done"

\* C1: in saveClipboardImageLinux, once an enumeration (wl-paste or xclip)
\* completes and lists none of image/png, image/jpeg, image/gif, that
\* enumeration is the last external invocation of the call, the call has
\* returned exactly Failure("No image found in clipboard."), and the call
\* has written no file, whatever a later backend would have listed.
C1_ShortCircuit ==
  \A p \in Procs : op[p] = SL =>
    \A i \in Idx(p) : NoImageListing(log[p][i]) =>
      /\ i = Len(log[p])
      /\ Returned(p)
      /\ result[p] = Failure(NoImageMsg)
      /\ OwnFiles(p) = {}

C1_Witness ==
  /\ op[1] = SL /\ Returned(1) /\ Len(log[1]) > 0
  /\ NoImageListing(Last(1)) /\ Last(1).tool = "wl-paste"
  /\ "xclip" \in installed
  /\ listing["xclip"].ok /\ listing["xclip"].types # {}

\* C2: in saveClipboardImageLinux a failed wl-paste enumeration or fetch is
\* swallowed: the next invocation is the xclip probe, and when xclip is
\* installed the xclip enumeration follows; when the failed backend was the
\* last of the chain (xclip, or wl-paste with xclip missing) and no fetch
\* succeeded, the call completes with a Failure result, never by rejecting.
C2_SoftFailureFallsThrough ==
  \A p \in Procs : op[p] = SL =>
    /\ \A i \in Idx(p) : BackendFailed(log[p][i], "wl-paste") =>
         /\ result[p].kind # "rejected"
         /\ IF i = Len(log[p])
              THEN pc[p] = "xclipProbe"
              ELSE /\ log[p][i + 1] = Ev("which", "xclip", "xclip" \in installed)
                   /\ "xclip" \in installed =>
                        IF i + 1 = Len(log[p])
                          THEN pc[p] = "xclipList"
                          ELSE log[p][i + 2].cmd = "list" /\ log[p][i + 2].tool = "xclip"
    /\ \A i \in Idx(p) :
         ( /\ \/ BackendFailed(log[p][i], "xclip")
              \/ BackendFailed(log[p][i], "wl-paste") /\ "xclip" \notin installed
           /\ SuccessfulFetches(p) = {}
           /\ Returned(p) )
         => result[p].kind = "failure"

C2_Witness ==
  /\ op[1] = SL /\ Returned(1) /\ result[1].kind = "success"
  /\ \E i \in Idx(1) : log[1][i].cmd = "fetch" /\ BackendFailed(log[1][i], "wl-paste")
  /\ \E i \in Idx(1) : log[1][i].cmd = "fetch" /\ log[1][i].tool = "xclip" /\ log[1][i].ok

\* C3: every Success of saveClipboardImageLinux names a file that exists,
\* is not empty, and holds exactly the bytes of the one fetch of the call
\* that succeeded.
C3_ByteExact ==
  \A p \in Procs : (op[p] = SL /\ result[p].kind = "success") =>
    /\ Exists(files, result[p].filePath)
    /\ Len(files[result[p].filePath]) > 0
    /\ Cardinality(SuccessfulFetches(p)) = 1
    /\ \A i \in SuccessfulFetches(p) : files[result[p].filePath] = log[p][i].bytes

C3_Witness ==
  /\ op[1] = SL /\ result[1].kind = "success"
  /\ Len(files[result[1].filePath]) = MaxLen
  /\ \E i \in Idx(1) : BackendFailed(log[1][i], "wl-paste")

\* C4 (as claimed): on both platforms, when the stat after persistence
\* reported size 0, the returned call left no file at the path and its
\* result is a Failure, also when the unlink failed; and a Success never
\* names a missing or empty file.
ZeroSizeSeen(p) == \E i \in Idx(p) : log[p][i].cmd = "stat" /\ log[p][i].ok /\ log[p][i].size = 0

C4_ZeroByteFileRemoved ==
  \A p \in Procs : (op[p] \in {SL, SW} /\ Returned(p)) =>
    /\ ZeroSizeSeen(p) => (~Exists(files, filePath[p]) /\ result[p].kind = "failure")
    /\ result[p].kind = "success" =>
         (Exists(files, result[p].filePath) /\ Len(files[result[p].filePath]) > 0)

\* C5 (as claimed): every Failure returned by saveClipboardImageLinux or
\* saveClipboardImageWindows leaves no file at the generated output path.
C5_FailureLeavesNoFile ==
  \A p \in Procs : (op[p] \in {SL, SW} /\ Returned(p) /\ result[p].kind = "failure") =>
    ~Exists(files, filePath[p])

\* C6: when wl-paste, xclip and xsel are all missing, a call of
\* saveClipboardImageLinux that probes invokes no enumeration, fetch or
\* read, only probes, and returns Failure with the "No clipboard tool
\* available" message, which differs from "No image found in clipboard."
C6_NoToolAvailable ==
  \A p \in Procs :
    (op[p] = SL /\ installed = {} /\ \E i \in Idx(p) : log[p][i].cmd = "which") =>
      /\ \A i \in Idx(p) : log[p][i].cmd \in {"ensureClipboardDir", "which"}
      /\ \A i \in Idx(p) : log[p][i].cmd = "which" => ~log[p][i].ok
      /\ pc[p] \in {"xclipProbe", "anyWl", "anyXclip", "anyXsel", "done"}
      /\ Returned(p) => (result[p] = Failure(NoToolMsg) /\ result[p].error # NoImageMsg)

C6_Witness ==
  /\ op[1] = SL /\ Returned(1) /\ installed = {} /\ wayland
  /\ result[1] = Failure(NoToolMsg)
  /\ Len(log[1]) = 6

\* C7 (as claimed): no entry point completes by rejecting: a returned save
\* holds a Success or Failure result, a returned detection a boolean.
C7_NeverRejects ==
  \A p \in Procs : Returned(p) =>
    /\ op[p] \in {SL, SW} => result[p].kind \in {"success", "failure"}
    /\ op[p] \in {HL, HW} => result[p].kind = "bool"

\* C8 (as claimed): in saveClipboardImageLinux, after a wl-paste fetch that
\* completed with zero bytes, the call goes on to xclip when xclip is
\* installed: it is at the xclip probe or has run the xclip enumeration.
C8_EmptyBytesFallThrough ==
  \A p \in Procs : op[p] = SL =>
    \A i \in Idx(p) :
      ( /\ log[p][i].cmd = "fetch" /\ log[p][i].tool = "wl-paste"
        /\ log[p][i].ok /\ log[p][i].bytes = <<>>
        /\ "xclip" \in installed )
      => \/ pc[p] \in {"xclipProbe", "xclipList"}
         \/ \E j \in Idx(p) : j > i /\ log[p][j].cmd = "list" /\ log[p][j].tool = "xclip"

\* C9 (as claimed): "No image found in clipboard." is returned only by a
\* call in which an enumeration completed and listed no supported image
\* type (Linux) or the script printed NO_IMAGE (Windows).
C9_NoImageIsDefinitive ==
  \A p \in Procs : (Returned(p) /\ result[p] = Failure(NoImageMsg)) =>
    /\ op[p] = SL => \E i \in Idx(p) : NoImageListing(log[p][i])
    /\ op[p] = SW => \E i \in Idx(p) :
         log[p][i].cmd = "powershell" /\ log[p][i].ok /\ log[p][i].out = "NO_IMAGE"

\* C10: in saveClipboardImageLinux, when the fetch whose bytes are used
\* (imageData) returned zero bytes, the call has returned
\* Failure("Clipboard image is empty."), a message that is neither the
\* no-image nor the no-tool message, and no file name was generated and
\* no file written.
C10_EmptyContent ==
  \A p \in Procs : (op[p] = SL /\ imageData[p] = Some(<<>>)) =>
    /\ Returned(p)
    /\ result[p] = Failure(EmptyMsg)
    /\ result[p].error \notin {NoImageMsg, NoToolMsg}
    /\ filePath[p] = NoPath
    /\ OwnFiles(p) = {}
    /\ \A i \in Idx(p) : log[p][i].cmd # "writeFile"

C10_Witness ==
  /\ op[1] = SL /\ imageData[1] = Some(<<>>) /\ Returned(1)
  /\ Last(1).cmd = "fetch" /\ Last(1).tool = "xclip"
  /\ \E i \in Idx(1) : BackendFailed(log[1][i], "wl-paste")

\* C11: detection is idempotent.  Two returned calls of the same detection
\* entry point in one environment hold the same boolean (on Windows: when
\* powershell.exe completed alike in both), and no step of a detection call
\* changes the environment or the files, which is all a later call reads.
PowerShellRan(p) == {log[p][i].ok : i \in Idx(p)}

C11_SameAnswer ==
  \A p, q \in Procs :
    ( /\ op[p] \in DetectOps /\ op[p] = op[q]
      /\ Returned(p) /\ Returned(q)
      /\ op[p] = HW => PowerShellRan(p) = PowerShellRan(q) )
    => result[p] = result[q]

C11_DetectionIdempotent ==
  /\ []C11_SameAnswer
  /\ [][(\E p \in Procs : op'[p] \in DetectOps /\ pc'[p] # pc[p])
          => UNCHANGED <<envVars, files>>]_vars

C11_Witness ==
  /\ op[1] = HL /\ op[2] = HL /\ Returned(1) /\ Returned(2)
  /\ Last(1).cmd = "read" /\ Last(2).cmd = "read"
  /\ Last(1).ok # Last(2).ok
  /\ result[1] = result[2]

\* C12: in saveClipboardImageLinux every fetch directly follows the
\* enumeration of the same backend, and asks for image/png when that listed
\* png, else image/jpeg when it listed jpeg, else image/gif, which it then
\* listed; a Success rests on exactly one fetch, hence on one format.
C12_NegotiationOrder ==
  \A p \in Procs : op[p] = SL =>
    /\ \A i \in Idx(p) : log[p][i].cmd = "fetch" =>
         /\ i > 1
         /\ log[p][i - 1].cmd = "list" /\ log[p][i - 1].ok
         /\ log[p][i - 1].tool = log[p][i].tool
         /\ LET listed == log[p][i - 1].types
                asked == log[p][i].mime
            IN  /\ "image/png" \in listed => asked = "image/png"
                /\ ("image/png" \notin listed /\ "image/jpeg" \in listed) => asked = "image/jpeg"
                /\ ("image/png" \notin listed /\ "image/jpeg" \notin listed) =>
                     (asked = "image/gif" /\ "image/gif" \in listed)
    /\ result[p].kind = "success" => Cardinality(SuccessfulFetches(p)) = 1

C12_Witness ==
  /\ op[1] = SL /\ result[1].kind = "success"
  /\ Len(log[1]) > 3
  /\ log[1][3] = EvList("wl-paste", [ok |-> TRUE, types |-> {"image/jpeg", "image/gif"}])
  /\ log[1][4].cmd = "fetch" /\ log[1][4].mime = "image/jpeg" /\ log[1][4].ok

\* C15: within one call of saveClipboardImageLinux or
\* hasClipboardImageLinux each backend's enumeration, fetch and read is
\* invoked at most once, and after a backend's enumeration or fetch failed
\* that backend is not enumerated or fetched from again.
Invocations(p, t, c) == {i \in Idx(p) : log[p][i].tool = t /\ log[p][i].cmd = c}

C15_NoRetry ==
  \A p \in Procs : op[p] \in {SL, HL} =>
    /\ \A t \in Tools : \A c \in {"list", "fetch", "read"} :
         Cardinality(Invocations(p, t, c)) <= 1
    /\ \A i \in Idx(p) : \A t \in Tools : BackendFailed(log[p][i], t) =>
         \A j \in Idx(p) : j > i =>
           ~(log[p][j].tool = t /\ log[p][j].cmd \in {"list", "fetch", "read"})

C15_Witness ==
  /\ op[1] = SL /\ Returned(1) /\ Len(log[1]) = 8
  /\ log[1][4].cmd = "fetch" /\ BackendFailed(log[1][4], "wl-paste")
  /\ log[1][7].cmd = "fetch" /\ BackendFailed(log[1][7], "xclip")
  /\ result[1].kind = "failure"

\* C16: in saveClipboardImageLinux every xclip invocation comes after the
\* wl-paste attempt is exhausted (not under Wayland, or the wl-paste probe
\* failed, or its enumeration failed, or its fetch completed or failed), no
\* wl-paste enumeration or fetch follows an xclip invocation, and xclip is
\* probed and enumerated only while imageData is null, that is in calls
\* where no wl-paste fetch succeeded.  Each invocation is awaited before the
\* next is made, so the log is the order of the invocations.
WlExhaustedBefore(p, i) ==
  \/ ~wayland
  \/ \E j \in Idx(p) : j < i /\
       \/ log[p][j] = Ev("which", "wl-paste", FALSE)
       \/ BackendFailed(log[p][j], "wl-paste")
       \/ log[p][j].tool = "wl-paste" /\ log[p][j].cmd = "fetch"

C16_StrictPriority ==
  \A p \in Procs : op[p] = SL =>
    /\ \A i \in Idx(p) : log[p][i].tool = "xclip" =>
         /\ WlExhaustedBefore(p, i)
         /\ \A j \in Idx(p) : j > i =>
              ~(log[p][j].tool = "wl-paste" /\ log[p][j].cmd \in {"list", "fetch"})
         /\ log[p][i].cmd = "list" =>
              \A j \in SuccessfulFetches(p) : log[p][j].tool # "wl-paste"
    /\ pc[p] \in {"xclipProbe", "xclipList", "xclipFetch"} => imageData[p] = None

C16_Witness ==
  /\ op[1] = SL /\ wayland /\ Len(log[1]) = 6
  /\ log[1][4].cmd = "fetch" /\ BackendFailed(log[1][4], "wl-paste")
  /\ log[1][6].cmd = "list" /\ log[1][6].tool = "xclip"

\* C19: on every Success of saveClipboardImageLinux the format in the
\* generated file name is the format of the MIME type asked for in the fetch
\* that succeeded, also when wl-paste had negotiated another format before
\* its fetch failed.
MimeOfFormat(f) ==
  CASE f = "png" -> "image/png"
    [] f = "jpeg" -> "image/jpeg"
    [] f = "gif" -> "image/gif"
    [] OTHER -> ""

C19_FormatOfWinner ==
  \A p \in Procs : op[p] = SL =>
    /\ pc[p] \in {"write", "stat", "unlinkZero", "cleanup"} =>
         \A i \in SuccessfulFetches(p) : log[p][i].mime = MimeOfFormat(filePath[p].ext)
    /\ result[p].kind = "success" =>
         /\ SuccessfulFetches(p) # {}
         /\ \A i \in SuccessfulFetches(p) : log[p][i].mime = MimeOfFormat(result[p].filePath.ext)

C19_Witness ==
  /\ op[1] = SL /\ result[1].kind = "success" /\ Len(log[1]) > 6
  /\ log[1][3].cmd = "list" /\ log[1][3].types = {"image/jpeg"}
  /\ log[1][4].cmd = "fetch" /\ log[1][4].mime = "image/jpeg" /\ ~log[1][4].ok
  /\ log[1][7].cmd = "fetch" /\ log[1][7].mime = "image/png" /\ log[1][7].ok
  /\ result[1].filePath.ext = "png"

\* C20: a call of saveClipboardImageLinux invokes writeFile at most once,
\* only after a fetch of the call returned a non-empty byte sequence, and
\* with those bytes; a call that ends with the no-tool, no-image or
\* empty-content Failure has invoked no writeFile and no unlink and has
\* left the set of files as it found it.
C20_PersistOnce ==
  \A p \in Procs : op[p] = SL =>
    /\ Cardinality(Invocations(p, "fs", "writeFile")) <= 1
    /\ \A i \in Invocations(p, "fs", "writeFile") :
         \E j \in SuccessfulFetches(p) :
           j < i /\ Len(log[p][j].bytes) > 0 /\ log[p][i].bytes = log[p][j].bytes
    /\ (Returned(p) /\ result[p].kind = "failure" /\ result[p].error \in {NoToolMsg, NoImageMsg, EmptyMsg}) =>
         /\ \A i \in Idx(p) : log[p][i].cmd \notin {"writeFile", "unlink"}
         /\ OwnFiles(p) = {}
         /\ DOMAIN files = {}

C20_Witness ==
  /\ op[1] = SL /\ Returned(1) /\ result[1].kind = "failure"
  /\ Cardinality(Invocations(1, "fs", "writeFile")) = 1
  /\ Cardinality(Invocations(1, "fs", "unlink")) = 2

FirstListing ==
  IF wayland /\ "wl-paste" \in installed /\ listing["wl-paste"].ok THEN listing["wl-paste"]
  ELSE IF "xclip" \in installed /\ listing["xclip"].ok THEN listing["xclip"]
  ELSE [ok |-> FALSE, types |-> {}]

DetectionAnswer == FirstListing.ok /\ FirstListing.types \cap ImageMimes # {}

C18_SameChain ==
  \A p \in Procs :
    /\ (op[p] = HL /\ Returned(p)) => result[p] = Bool(DetectionAnswer)
    /\ (op[p] = SL /\ result[p].kind = "success") => DetectionAnswer
    /\ (op[p] = SL /\ Returned(p) /\ log[p][1].ok /\ ~DetectionAnswer) => result[p].kind = "failure"

C18_Witness ==
  /\ op[1] = SL /\ result[1].kind = "success"
  /\ wayland /\ "wl-paste" \in installed /\ ~listing["wl-paste"].ok
  /\ DetectionAnswer

\* C13: concurrent save calls do not interfere.  With a file name per call,
\* a Success names a file that holds exactly the bytes that same call
\* fetched (Linux) or that its own script saved (Windows), in every state
\* after the return, and a step of one call never creates, changes or
\* removes a file of another call.
OwnBytes(p) ==
  {log[p][i].bytes : i \in SuccessfulFetches(p) \cup Invocations(p, "GetImage", "powershell")}

C13_SuccessIsOwn ==
  \A p \in Procs : result[p].kind = "success" =>
    /\ Exists(files, result[p].filePath)
    /\ result[p].filePath.call = p
    /\ OwnBytes(p) = {files[result[p].filePath]}

C13_NoInterference ==
  /\ []C13_SuccessIsOwn
  /\ [][\A p \in Procs : pc'[p] = pc[p] =>
          \A path \in DOMAIN files \cup DOMAIN files' : path.call = p =>
            /\ path \in DOMAIN files /\ path \in DOMAIN files'
            /\ files'[path] = files[path]]_vars

C13_Witness ==
  /\ result[1].kind = "success" /\ op[1] = SL
  /\ op[2] = SL /\ Returned(2) /\ result[2].kind = "failure"
  /\ Last(2) = Ev("unlink", "fs", TRUE)
  /\ Invocations(2, "fs", "writeFile") # {}
  /\ DOMAIN files = {result[1].filePath}

\* C14: termination.  When every external invocation completes, every call
\* that was started returns; a call makes at most 11 external invocations;
\* and a call that was started and has not returned always has a next
\* invocation to make.
C14_Terminates ==
  /\ \A p \in Procs : (pc[p] = "start") ~> Returned(p)
  /\ [](\A p \in Procs : Len(log[p]) <= 11)
  /\ [](\A p \in Procs : pc[p] \notin {"idle", "done"} => ENABLED <<Next>>_vars)

C14_Witness ==
  /\ op[1] = SL /\ Returned(1) /\ Len(log[1]) = 11
====
